---------------------------- MODULE Spec2Model ----------------------------
(***************************************************************************)
(* Model of crewai_backend/main.py: the capacity-constrained first-fit    *)
(* assignment (route_optimization_tool), the language-model call with its *)
(* internal fallback (llm_optimize_routes) and the HTTP handler            *)
(* (optimize_routes_endpoint).                                             *)
(*                                                                         *)
(* Python dicts are functions from key strings to values; a missing key   *)
(* is a key outside DOMAIN.  Python lists are sequences.  Weights and      *)
(* capacities are integers here (the code uses floats and compares and     *)
(* adds them with the same operators).  vehicle_index is 0-based as in the *)
(* code, so fleet_data[vehicle_index] is fleet_data[vehicle_index + 1].    *)
(***************************************************************************)
EXTENDS Integers, Sequences, FiniteSets, TLC

VARIABLES
    request,              \* the body of the HTTP request, before validation
    deliveries_data,      \* argument: list of delivery dicts
    fleet_data,           \* argument: list of vehicle dicts
    pc,                   \* position of the running call
    ret,                  \* who called route_optimization_tool
    optimized_routes,     \* local of route_optimization_tool
    remaining_deliveries, \* local of route_optimization_tool
    vehicle_index,        \* local of route_optimization_tool
    new_route,            \* local of route_optimization_tool
    temp_remaining,       \* local of route_optimization_tool
    scan_pos,             \* position of the for loop in remaining_deliveries
    result,               \* the dict a call returns / the response body
    llm_ready,            \* LLM_AVAILABLE and llm, set at import
    provider,             \* os.getenv("LLM_PROVIDER", "openai") of the request
    llm_outcome           \* what the awaited llm.ainvoke did

vars == <<request, deliveries_data, fleet_data, pc, ret, optimized_routes,
          remaining_deliveries, vehicle_index, new_route, temp_remaining,
          scan_pos, result, llm_ready, provider, llm_outcome>>

\* what route_optimization_tool neither reads nor writes
handler_state == <<request, llm_ready, provider, llm_outcome>>

tool_locals == <<optimized_routes, remaining_deliveries, vehicle_index,
                 new_route, temp_remaining, scan_pos>>

(***************************************************************************)
(* Bounds of the model.                                                    *)
(***************************************************************************)
MaxDeliveries == 3
MaxFleet == 2
MaxWeight == 2
MaxCapacity == 3

(***************************************************************************)
(* Inputs.  A delivery dict always has an id (its input position, so ids   *)
(* are unique) and may lack "weight"; a vehicle dict is either complete or *)
(* carries neither "id" nor "capacity".                                    *)
(***************************************************************************)
DeliveryDict(i, w) ==
    IF w = 0 THEN [id |-> i] ELSE [id |-> i, weight |-> w]

VehicleDict(k, c) ==
    IF c = 0 THEN [type |-> "van"]
    ELSE [type |-> "van", id |-> <<"v", k>>, capacity |-> c]

DeliveryLists ==
    UNION { { [i \in 1..n |-> DeliveryDict(i, ws[i])] :
                ws \in [1..n -> 0..MaxWeight] } : n \in 0..MaxDeliveries }

FleetLists ==
    UNION { { [k \in 1..m |-> VehicleDict(k, cs[k])] :
                cs \in [1..m -> 0..MaxCapacity] } : m \in 0..MaxFleet }

(***************************************************************************)
(* Helpers of route_optimization_tool.                                     *)
(***************************************************************************)
\* delivery.get('weight', 0)
DeliveryWeight(delivery) ==
    IF "weight" \in DOMAIN delivery THEN delivery.weight ELSE 0

\* the sum of the weights of a list of deliveries
RECURSIVE SumWeights(_)
SumWeights(seq) ==
    IF seq = <<>> THEN 0
    ELSE DeliveryWeight(Head(seq)) + SumWeights(Tail(seq))

\* hash(str(current_vehicle)): a function of the vehicle's text that is
\* fixed within one process and not injective.
HashStr(vehicle) ==
    IF "capacity" \in DOMAIN vehicle THEN vehicle.capacity % 2 ELSE 0

\* current_vehicle.get('id', f'vehicle_{vehicle_index}')
VehicleId(vehicle, index) ==
    IF "id" \in DOMAIN vehicle THEN vehicle.id ELSE <<"vehicle_", index>>

\* the route dict built at the top of the while body
NewRoute(vehicle, index) ==
    [routeId |-> <<"RUTA", HashStr(vehicle), index>>,
     vehicleId |-> VehicleId(vehicle, index),
     stops |-> <<>>,
     totalWeight |-> 0]

\* faulty variants of the capacity test: the delivery's weight is not
\* added / the comparison is strict
FitsBeforeAdding(route, delivery, vehicle) ==
    IF "capacity" \in DOMAIN vehicle
    THEN route.totalWeight <= vehicle.capacity
    ELSE TRUE
FitsStrictly(route, delivery, vehicle) ==
    IF "capacity" \in DOMAIN vehicle
    THEN route.totalWeight + DeliveryWeight(delivery) < vehicle.capacity
    ELSE TRUE

\* new_route["totalWeight"] + delivery_weight <= vehicle_capacity, with
\* vehicle_capacity = current_vehicle.get('capacity', float('inf'))
Fits(route, delivery, vehicle) ==
    IF "capacity" \in DOMAIN vehicle
    THEN route.totalWeight + DeliveryWeight(delivery) <= vehicle.capacity
    ELSE TRUE

\* the two statements of the accepting branch
Accept(route, delivery) ==
    [route EXCEPT !.stops = Append(@, delivery),
                  !.totalWeight = @ + DeliveryWeight(delivery)]

\* faulty variants of the rejecting branch: the delivery is lost / put in
\* front
RejectDrops(temp, delivery) == temp
RejectInFront(temp, delivery) == <<delivery>> \o temp

\* the rejecting branch: temp_remaining.append(delivery)
Reject(temp, delivery) == Append(temp, delivery)

\* faulty variant: the route is kept even when it has no stops
KeepRouteAlways(routes, route) == Append(routes, route)

\* if new_route["stops"]: optimized_routes.append(new_route)
KeepRoute(routes, route) ==
    IF route.stops # <<>> THEN Append(routes, route) ELSE routes

\* faulty variant: the early return forgets the deliveries
EarlyReturnEmpty(deliveries) ==
    [optimizedRoutes |-> <<>>, unassignedDeliveries |-> <<>>]

\* the dict returned when deliveries_data or fleet_data is empty
EarlyReturn(deliveries) ==
    [optimizedRoutes |-> <<>>, unassignedDeliveries |-> deliveries]

\* the dict returned after the while loop
FinalReturn(routes, remaining) ==
    [optimizedRoutes |-> routes, unassignedDeliveries |-> remaining]

NoRoute == [routeId |-> <<>>, vehicleId |-> <<>>, stops |-> <<>>, totalWeight |-> 0]
NoResult == <<>>
NoRequest == [deliveries |-> <<>>, fleet |-> <<>>]
NoOutcome == [kind |-> "none", value |-> <<>>]

(***************************************************************************)
(* route_optimization_tool, one step per loop iteration.                   *)
(***************************************************************************)
\* if not deliveries_data or not fleet_data: return ...; else the three
\* initialisations before the while loop
ToolEntry ==
    /\ pc = "entry"
    /\ IF deliveries_data = <<>> \/ fleet_data = <<>>
       THEN /\ result' = EarlyReturn(deliveries_data)
            /\ pc' = "return"
            /\ UNCHANGED tool_locals
       ELSE /\ optimized_routes' = <<>>
            /\ remaining_deliveries' = deliveries_data
            /\ vehicle_index' = 0
            /\ pc' = "while"
            /\ UNCHANGED <<new_route, temp_remaining, scan_pos, result>>
    /\ UNCHANGED <<deliveries_data, fleet_data, ret, handler_state>>

\* the while test; on success the head of the body up to the for loop, on
\* failure the final return
ToolWhile ==
    /\ pc = "while"
    /\ IF remaining_deliveries # <<>> /\ vehicle_index < Len(fleet_data)
       THEN /\ new_route' = NewRoute(fleet_data[vehicle_index + 1], vehicle_index)
            /\ temp_remaining' = <<>>
            /\ scan_pos' = 1
            /\ pc' = "for"
            /\ UNCHANGED <<optimized_routes, remaining_deliveries, vehicle_index, result>>
       ELSE /\ result' = FinalReturn(optimized_routes, remaining_deliveries)
            /\ pc' = "return"
            /\ UNCHANGED tool_locals
    /\ UNCHANGED <<deliveries_data, fleet_data, ret, handler_state>>

\* one iteration of: for delivery in remaining_deliveries
ToolFor ==
    /\ pc = "for"
    /\ scan_pos <= Len(remaining_deliveries)
    /\ LET delivery == remaining_deliveries[scan_pos]
           current_vehicle == fleet_data[vehicle_index + 1]
       IN  IF Fits(new_route, delivery, current_vehicle)
           THEN /\ new_route' = Accept(new_route, delivery)
                /\ UNCHANGED temp_remaining
           ELSE /\ temp_remaining' = Reject(temp_remaining, delivery)
                /\ UNCHANGED new_route
    /\ scan_pos' = scan_pos + 1
    /\ UNCHANGED <<deliveries_data, fleet_data, pc, ret, optimized_routes,
                   remaining_deliveries, vehicle_index, result, handler_state>>

\* after the for loop: keep the route if it has stops, replace
\* remaining_deliveries, advance vehicle_index
ToolEndVehicle ==
    /\ pc = "for"
    /\ scan_pos > Len(remaining_deliveries)
    /\ optimized_routes' = KeepRoute(optimized_routes, new_route)
    /\ remaining_deliveries' = temp_remaining
    /\ vehicle_index' = vehicle_index + 1
    /\ pc' = "while"
    /\ UNCHANGED <<deliveries_data, fleet_data, ret, new_route, temp_remaining,
                   scan_pos, result, handler_state>>

\* a direct call of route_optimization_tool returns to its caller
ToolReturnDirect ==
    /\ pc = "return"
    /\ ret = "direct"
    /\ pc' = "returned"
    /\ UNCHANGED <<deliveries_data, fleet_data, ret, tool_locals, result,
                   handler_state>>

(***************************************************************************)
(* route_optimization_tool as a function of its arguments: the value a     *)
(* call returns, computed by the same loop.                                *)
(***************************************************************************)
\* the for loop over remaining_deliveries, from the given route and
\* temp_remaining
RECURSIVE ScanRemaining(_, _, _, _)
ScanRemaining(route, temp, remaining, vehicle) ==
    IF remaining = <<>> THEN [route |-> route, temp |-> temp]
    ELSE IF Fits(route, Head(remaining), vehicle)
         THEN ScanRemaining(Accept(route, Head(remaining)), temp, Tail(remaining), vehicle)
         ELSE ScanRemaining(route, Reject(temp, Head(remaining)), Tail(remaining), vehicle)

\* the while loop, from the given optimized_routes, remaining_deliveries
\* and vehicle_index, and the final return
RECURSIVE FillVehicles(_, _, _, _)
FillVehicles(routes, remaining, index, fleet) ==
    IF remaining # <<>> /\ index < Len(fleet)
    THEN LET scan == ScanRemaining(NewRoute(fleet[index + 1], index), <<>>,
                                   remaining, fleet[index + 1])
         IN  FillVehicles(KeepRoute(routes, scan.route), scan.temp, index + 1, fleet)
    ELSE FinalReturn(routes, remaining)

route_optimization_tool(deliveries, fleet) ==
    IF deliveries = <<>> \/ fleet = <<>>
    THEN EarlyReturn(deliveries)
    ELSE FillVehicles(<<>>, deliveries, 0, fleet)

(***************************************************************************)
(* The request models and the validation pydantic runs on them.            *)
(***************************************************************************)
\* DeliveryItem: id required, weight required and > 0
ValidDeliveryItem(d) ==
    /\ "id" \in DOMAIN d
    /\ "weight" \in DOMAIN d
    /\ d.weight > 0

\* VehicleItem: id required, capacity required and > 0
ValidVehicleItem(v) ==
    /\ "id" \in DOMAIN v
    /\ "capacity" \in DOMAIN v
    /\ v.capacity > 0

\* OptimizationRequest with its two validators
ValidRequest(req) ==
    /\ \A i \in DOMAIN req.deliveries : ValidDeliveryItem(req.deliveries[i])
    /\ \A k \in DOMAIN req.fleet : ValidVehicleItem(req.fleet[k])
    /\ req.deliveries # <<>>
    /\ req.fleet # <<>>

\* d.dict() of a DeliveryItem: the optional fields the request left out
\* appear with the value None
DeliveryItemDict(d) ==
    [id |-> d.id, weight |-> d.weight,
     orderId |-> "None", address |-> "None", priority |-> "None"]

\* v.dict() of a VehicleItem
VehicleItemDict(v) ==
    [id |-> v.id, capacity |-> v.capacity,
     type |-> IF "type" \in DOMAIN v THEN v.type ELSE "None", location |-> "None"]

(***************************************************************************)
(* The environment of a request and the answers of the language model.     *)
(***************************************************************************)
Providers == {"openai", "ollama"}

\* os.getenv("OPENAI_API_KEY"): unset, the demo key, a real key
ApiKeys == {"", "sk-fake-key-for-demo", "sk-live"}

\* the test that sets can_use_llm
CanUseLlm(ready, env_provider, api_key) ==
    /\ ready
    /\ \/ env_provider = "ollama"
       \/ api_key # "" /\ api_key # "sk-fake-key-for-demo"

\* The text of an answer is a sequence of tokens: "{" and "}", "members"
\* for the text of the members of a JSON object, "prose" for anything else.
Texts ==
    { <<>>,
      <<"prose">>,
      <<"{", "members", "}">>,
      <<"prose", "{", "members", "}", "prose">>,
      <<"{", "}">>,
      <<"{", "members">>,
      <<"}", "prose", "{">>,
      <<"{", "prose", "}">>,
      <<"{", "members", "}", "prose", "{", "}">> }

\* re.search(r'\{.*\}', text, re.DOTALL): the leftmost "{" that has a "}"
\* after it, up to the last "}" of the text; <<>> when there is no match
JsonMatch(text) ==
    LET opens == { p \in DOMAIN text :
                     text[p] = "{" /\ \E q \in DOMAIN text : q > p /\ text[q] = "}" }
        first == CHOOSE p \in opens : \A q \in opens : p <= q
        last == CHOOSE p \in DOMAIN text :
                    text[p] = "}" /\ \A q \in DOMAIN text : text[q] = "}" => q <= p
    IN  IF opens = {} THEN <<>> ELSE SubSeq(text, first, last)

\* json.loads on a match: the object whose members the text spells, the
\* empty object for "{}", and a JSONDecodeError otherwise
JsonLoads(match, members) ==
    IF match = <<"{", "members", "}">> THEN [ok |-> TRUE, value |-> members]
    ELSE IF match = <<"{", "}">> THEN [ok |-> TRUE, value |-> <<>>]
    ELSE [ok |-> FALSE, value |-> <<>>]

\* a route as the language model writes it
LlmRoute(fleet, k, stops, weight) ==
    [routeId |-> <<"RUTA-X", k>>, vehicleId |-> fleet[k].id,
     stops |-> stops, totalWeight |-> weight]

\* Objects the language model may spell for the given deliveries and fleet:
\* nothing assigned; everything on the first vehicle; the first delivery
\* left out; the first delivery twice; a totalWeight that is not the sum;
\* one delivery on the last vehicle; and an object carrying the key
\* "_internal_fallback".
LlmObjects(deliveries, fleet) ==
    { [optimizedRoutes |-> <<>>, unassignedDeliveries |-> deliveries],
      [optimizedRoutes |-> <<LlmRoute(fleet, 1, deliveries, SumWeights(deliveries))>>,
       unassignedDeliveries |-> <<>>],
      [optimizedRoutes |-> <<>>, unassignedDeliveries |-> Tail(deliveries)],
      [optimizedRoutes |-> <<LlmRoute(fleet, 1, <<deliveries[1]>>,
                                      DeliveryWeight(deliveries[1]))>>,
       unassignedDeliveries |-> deliveries],
      [optimizedRoutes |-> <<LlmRoute(fleet, 1, <<deliveries[1]>>, 0)>>,
       unassignedDeliveries |-> Tail(deliveries)],
      [optimizedRoutes |-> <<LlmRoute(fleet, Len(fleet), <<deliveries[1]>>,
                                      DeliveryWeight(deliveries[1]))>>,
       unassignedDeliveries |-> Tail(deliveries)],
      [optimizedRoutes |-> <<>>, unassignedDeliveries |-> <<>>,
       _internal_fallback |-> TRUE] }

(***************************************************************************)
(* llm_optimize_routes and optimize_routes_endpoint.                       *)
(***************************************************************************)
\* result["_internal_fallback"] = True
MarkFallback(res) == ("_internal_fallback" :> TRUE) @@ res

\* faulty variant: the marker is left in the response
KeepMarker(res) == res

\* result.pop("_internal_fallback", None)
PopMarker(res) == [key \in DOMAIN res \ {"_internal_fallback"} |-> res[key]]

\* result.get("_internal_fallback")
IsMarked(res) ==
    "_internal_fallback" \in DOMAIN res /\ res["_internal_fallback"] = TRUE

\* Strings built by f-strings are tuples of their parts, and so are the
\* plain strings they are compared with.
\* the three assignments every branch of the handler ends with
Annotated(res, method, used, message) ==
    [optimization_method |-> method, llm_used |-> used, message |-> message]
        @@ res

\* the branch taken when the result carries the marker
AnnotateFallback(res, env_provider) ==
    Annotated(PopMarker(res), <<"basic_algorithm_after_llm_error">>, FALSE,
              <<"LLM (", env_provider, ") falló. Usando algoritmo básico.">>)

\* the branch taken when it does not
AnnotateLlm(res, env_provider) ==
    Annotated(res, <<"llm_", env_provider>>, TRUE,
              <<"Optimización realizada con ", env_provider>>)

\* the last statements of the handler, without a language model
AnnotateBasic(res) ==
    Annotated(res, <<"basic_algorithm">>, FALSE,
              <<"Optimización realizada con algoritmo básico">>)

\* pydantic builds the OptimizationRequest or answers 422
Validate ==
    /\ pc = "request"
    /\ pc' = IF ValidRequest(request) THEN "handler" ELSE "rejected"
    /\ UNCHANGED <<request, deliveries_data, fleet_data, ret, tool_locals, result,
                   llm_ready, provider, llm_outcome>>

\* the handler up to its first await or call: the two dict() lists, the
\* test for can_use_llm, then either the call of llm_optimize_routes, which
\* builds the prompt and awaits llm.ainvoke, or the call of
\* route_optimization_tool
Dispatch ==
    /\ pc = "handler"
    /\ deliveries_data' = [i \in DOMAIN request.deliveries |->
                               DeliveryItemDict(request.deliveries[i])]
    /\ fleet_data' = [k \in DOMAIN request.fleet |->
                          VehicleItemDict(request.fleet[k])]
    /\ \E env_provider \in Providers, api_key \in ApiKeys :
           /\ provider' = env_provider
           /\ IF CanUseLlm(llm_ready, env_provider, api_key)
              THEN pc' = "awaiting" /\ ret' = "llm"
              ELSE pc' = "entry" /\ ret' = "basic"
    /\ UNCHANGED <<request, tool_locals, result, llm_ready, llm_outcome>>

\* llm.ainvoke answers with a text: the regular expression, json.loads and
\* the return, or the exception either of them ends in, which the except
\* clause of llm_optimize_routes turns into a call of
\* route_optimization_tool
LlmAnswers ==
    /\ pc = "awaiting"
    /\ \E text \in Texts, members \in LlmObjects(deliveries_data, fleet_data) :
           LET match == JsonMatch(text)
               loaded == JsonLoads(match, members)
           IN  IF match = <<>>
               THEN /\ llm_outcome' = [kind |-> "no_json", value |-> <<>>]
                    /\ pc' = "entry"
                    /\ UNCHANGED result
               ELSE IF ~loaded.ok
               THEN /\ llm_outcome' = [kind |-> "bad_json", value |-> <<>>]
                    /\ pc' = "entry"
                    /\ UNCHANGED result
               ELSE /\ llm_outcome' = [kind |-> "parsed", value |-> loaded.value]
                    /\ result' = loaded.value
                    /\ pc' = "annotate"
    /\ UNCHANGED <<request, deliveries_data, fleet_data, ret, tool_locals,
                   llm_ready, provider>>

\* llm.ainvoke raises an Exception (connection refused, bad credentials, a
\* timeout of the client library): the except clause of
\* llm_optimize_routes calls route_optimization_tool
LlmRaises ==
    /\ pc = "awaiting"
    /\ llm_outcome' = [kind |-> "raised", value |-> <<>>]
    /\ pc' = "entry"
    /\ UNCHANGED <<request, deliveries_data, fleet_data, ret, tool_locals, result,
                   llm_ready, provider>>

\* the task is cancelled while it awaits llm.ainvoke: CancelledError is not
\* an Exception, so no except clause of llm_optimize_routes or of the
\* handler catches it and the request ends without a response
LlmCancelled ==
    /\ pc = "awaiting"
    /\ llm_outcome' = [kind |-> "cancelled", value |-> <<>>]
    /\ pc' = "cancelled"
    /\ UNCHANGED <<request, deliveries_data, fleet_data, ret, tool_locals, result,
                   llm_ready, provider>>

\* the except clause of llm_optimize_routes after route_optimization_tool
\* has returned: mark the result and return it to the handler
ToolReturnLlm ==
    /\ pc = "return"
    /\ ret = "llm"
    /\ result' = MarkFallback(result)
    /\ pc' = "annotate"
    /\ UNCHANGED <<request, deliveries_data, fleet_data, ret, tool_locals,
                   llm_ready, provider, llm_outcome>>

\* the handler after llm_optimize_routes has returned
Annotate ==
    /\ pc = "annotate"
    /\ result' = IF IsMarked(result)
                 THEN AnnotateFallback(result, provider)
                 ELSE AnnotateLlm(result, provider)
    /\ pc' = "responded"
    /\ UNCHANGED <<request, deliveries_data, fleet_data, ret, tool_locals,
                   llm_ready, provider, llm_outcome>>

\* the handler after route_optimization_tool has returned, without a
\* language model
ToolReturnBasic ==
    /\ pc = "return"
    /\ ret = "basic"
    /\ result' = AnnotateBasic(result)
    /\ pc' = "responded"
    /\ UNCHANGED <<request, deliveries_data, fleet_data, ret, tool_locals,
                   llm_ready, provider, llm_outcome>>

(***************************************************************************)
(* Vocabulary of the properties.                                           *)
(***************************************************************************)
Range(seq) == { seq[p] : p \in DOMAIN seq }

\* result.get(key, []) for the two list-valued keys of a result dict
RoutesOf(res) ==
    IF "optimizedRoutes" \in DOMAIN res THEN res.optimizedRoutes ELSE <<>>
UnassignedOf(res) ==
    IF "unassignedDeliveries" \in DOMAIN res THEN res.unassignedDeliveries ELSE <<>>

\* the places of a result where delivery d stands: <<r, p>> is stop p of
\* route r, <<0, p>> is position p of unassignedDeliveries
PlacesOf(res, d) ==
    UNION { { <<r, p>> : p \in { q \in DOMAIN RoutesOf(res)[r].stops :
                                   RoutesOf(res)[r].stops[q] = d } } :
            r \in DOMAIN RoutesOf(res) }
    \cup { <<0, p>> : p \in { q \in DOMAIN UnassignedOf(res) :
                               UnassignedOf(res)[q] = d } }

\* every input delivery stands in exactly one place, and nothing else does
Conservation(res, deliveries) ==
    /\ \A i \in DOMAIN deliveries : Cardinality(PlacesOf(res, deliveries[i])) = 1
    /\ \A r \in DOMAIN RoutesOf(res) : Range(RoutesOf(res)[r].stops) \subseteq Range(deliveries)
    /\ Range(UnassignedOf(res)) \subseteq Range(deliveries)

\* fleet positions (1-based) of the vehicles whose id is vid
VehiclesWithId(fleet, vid) ==
    { k \in DOMAIN fleet : VehicleId(fleet[k], k - 1) = vid }

WithinCapacity(weight, vehicle) ==
    "capacity" \notin DOMAIN vehicle \/ weight <= vehicle.capacity

\* the route's totalWeight is the sum of its stops' weights and does not
\* exceed the capacity of the vehicle the route names
RouteIsSafe(route, fleet) ==
    /\ route.totalWeight = SumWeights(route.stops)
    /\ VehiclesWithId(fleet, route.vehicleId) # {}
    /\ \A k \in VehiclesWithId(fleet, route.vehicleId) :
           WithinCapacity(route.totalWeight, fleet[k])

\* fleet position (1-based) of the vehicle of a route built by
\* route_optimization_tool: the index the code writes at the end of
\* routeId, plus one
VehiclePosition(route) == route.routeId[3] + 1

\* the same for the vehicle the route was built for, found by its position
RouteIsSafeAtPosition(route, fleet) ==
    /\ VehiclePosition(route) \in DOMAIN fleet
    /\ route.vehicleId =
           VehicleId(fleet[VehiclePosition(route)], VehiclePosition(route) - 1)
    /\ WithinCapacity(route.totalWeight, fleet[VehiclePosition(route)])

CapacitySafety(res, fleet) ==
    \A r \in DOMAIN RoutesOf(res) : RouteIsSafe(RoutesOf(res)[r], fleet)

(***************************************************************************)
(* C1  Conservation.                                                       *)
(***************************************************************************)
\* C1: when route_optimization_tool returns, every input delivery stands in
\* exactly one place of the result (one stop of one route, or one position
\* of unassignedDeliveries), and the result holds nothing but input
\* deliveries.
C1_Conservation ==
    pc = "return" => Conservation(result, deliveries_data)

C1_Witness ==
    /\ pc = "return"
    /\ Len(RoutesOf(result)) = 2
    /\ UnassignedOf(result) # <<>>

(***************************************************************************)
(* C2  Capacity safety.                                                    *)
(***************************************************************************)
\* C2: in every state of the scan the route under construction has
\* totalWeight equal to the sum of its stops' weights and at most the
\* capacity of the current vehicle; the same holds of every route already
\* kept and of every route of the returned result, for the vehicle whose id
\* is the route's vehicleId, which is the vehicle at the route's fleet
\* position.
C2_CapacitySafety ==
    /\ pc = "for" =>
          /\ new_route.totalWeight = SumWeights(new_route.stops)
          /\ WithinCapacity(new_route.totalWeight, fleet_data[vehicle_index + 1])
          /\ new_route.vehicleId =
                 VehicleId(fleet_data[vehicle_index + 1], vehicle_index)
    /\ pc \in {"while", "for"} =>
          \A r \in DOMAIN optimized_routes :
              /\ RouteIsSafe(optimized_routes[r], fleet_data)
              /\ RouteIsSafeAtPosition(optimized_routes[r], fleet_data)
    /\ pc = "return" =>
          /\ CapacitySafety(result, fleet_data)
          /\ \A r \in DOMAIN RoutesOf(result) :
                 RouteIsSafeAtPosition(RoutesOf(result)[r], fleet_data)

\* a vehicle filled exactly to its capacity by two deliveries, having
\* rejected another one during the scan
C2_Witness ==
    /\ pc = "for"
    /\ "capacity" \in DOMAIN fleet_data[vehicle_index + 1]
    /\ new_route.totalWeight = fleet_data[vehicle_index + 1].capacity
    /\ Len(new_route.stops) >= 2
    /\ temp_remaining # <<>>

(***************************************************************************)
(* C7  First fit in fleet order.                                           *)
(***************************************************************************)
\* the fleet position that received the delivery with input position i, or
\* 0 when the delivery is unassigned or absent
PlacedAt(res, deliveries, i) ==
    LET rs == { r \in DOMAIN RoutesOf(res) :
                  deliveries[i] \in Range(RoutesOf(res)[r].stops) }
    IN  IF rs = {} THEN 0 ELSE VehiclePosition(RoutesOf(res)[CHOOSE r \in rs : TRUE])

\* the weight vehicle k had accepted when the delivery with input position
\* i was offered to it: the weights of the deliveries before i placed at k
LoadBefore(res, deliveries, k, i) ==
    SumWeights(SelectSeq(SubSeq(deliveries, 1, i - 1),
                         LAMBDA d : PlacedAt(res, deliveries, d.id) = k))

WouldFit(res, deliveries, fleet, k, i) ==
    WithinCapacity(LoadBefore(res, deliveries, k, i) + DeliveryWeight(deliveries[i]),
                   fleet[k])

FirstFit(res, deliveries, fleet) ==
    \A i \in DOMAIN deliveries :
        LET k == PlacedAt(res, deliveries, i)
        IN  /\ k \in 0..Len(fleet)
            /\ k # 0 => WouldFit(res, deliveries, fleet, k, i)
            /\ \A j \in 1..(IF k = 0 THEN Len(fleet) ELSE k - 1) :
                   ~WouldFit(res, deliveries, fleet, j, i)

\* C7: when route_optimization_tool returns, every delivery stands in the
\* route of the first vehicle, in fleet order, whose already accepted
\* weight plus the delivery's weight is within its capacity; it was
\* rejected by every earlier vehicle, and it is unassigned only if every
\* vehicle of the fleet rejected it; a delivery heavier than every capacity
\* is unassigned.
C7_FirstFit ==
    pc = "return" =>
        /\ FirstFit(result, deliveries_data, fleet_data)
        /\ \A i \in DOMAIN deliveries_data :
               (\A k \in DOMAIN fleet_data :
                    ~WithinCapacity(DeliveryWeight(deliveries_data[i]), fleet_data[k]))
               => deliveries_data[i] \in Range(UnassignedOf(result))

\* the first delivery was rejected by vehicle 1 and taken by vehicle 2, a
\* later one was taken by vehicle 1, and one fits nowhere
C7_Witness ==
    /\ pc = "return"
    /\ Len(deliveries_data) >= 3
    /\ PlacedAt(result, deliveries_data, 1) = 2
    /\ PlacedAt(result, deliveries_data, 2) = 1
    /\ PlacedAt(result, deliveries_data, 3) = 0
    /\ WithinCapacity(DeliveryWeight(deliveries_data[3]), fleet_data[1])

(***************************************************************************)
(* C8  Empty input.                                                        *)
(***************************************************************************)
\* C8: called with no deliveries, route_optimization_tool returns no route
\* and no unassigned delivery; called with deliveries and an empty fleet it
\* returns no route and the input deliveries, in order, as unassigned; in
\* both cases it returns without entering the loop.
C8_EmptyInput ==
    /\ deliveries_data = <<>> \/ fleet_data = <<>> =>
           pc \in {"entry", "return", "returned"}
    /\ pc = "return" /\ deliveries_data = <<>> =>
           result = [optimizedRoutes |-> <<>>, unassignedDeliveries |-> <<>>]
    /\ pc = "return" /\ deliveries_data # <<>> /\ fleet_data = <<>> =>
           result = [optimizedRoutes |-> <<>>, unassignedDeliveries |-> deliveries_data]

C8_Witness ==
    /\ pc = "return"
    /\ fleet_data = <<>>
    /\ Len(deliveries_data) >= 2
    /\ UnassignedOf(result) = deliveries_data

(***************************************************************************)
(* C9  No empty routes.                                                    *)
(***************************************************************************)
RoutesWellFormed(routes, fleet) ==
    /\ \A r \in DOMAIN routes : routes[r].stops # <<>>
    /\ Len(routes) <= Len(fleet)
    /\ \A r \in DOMAIN routes :
           /\ VehiclePosition(routes[r]) \in DOMAIN fleet
           /\ routes[r].vehicleId =
                  VehicleId(fleet[VehiclePosition(routes[r])], VehiclePosition(routes[r]) - 1)
    /\ \A r, q \in DOMAIN routes :
           r # q => VehiclePosition(routes[r]) # VehiclePosition(routes[q])

\* C9: no route kept by route_optimization_tool, and none in its result,
\* has an empty stops list; there are at most as many routes as vehicles,
\* and the routes belong to pairwise distinct fleet positions, each
\* carrying the vehicleId of the vehicle at its position.
C9_NoEmptyRoutes ==
    /\ pc \in {"while", "for"} => RoutesWellFormed(optimized_routes, fleet_data)
    /\ pc = "return" => RoutesWellFormed(RoutesOf(result), fleet_data)

\* the first vehicle accepted nothing and produced no route, the second did
C9_Witness ==
    /\ pc = "return"
    /\ Len(fleet_data) = 2
    /\ Len(RoutesOf(result)) = 1
    /\ VehiclePosition(RoutesOf(result)[1]) = 2

(***************************************************************************)
(* C10  Order preservation.                                                *)
(***************************************************************************)
\* seq lists input deliveries in strictly increasing input position
InInputOrder(seq, deliveries) ==
    /\ \A p \in DOMAIN seq :
           /\ seq[p].id \in DOMAIN deliveries
           /\ seq[p] = deliveries[seq[p].id]
    /\ \A p, q \in DOMAIN seq : p < q => seq[p].id < seq[q].id

OrderPreserved(res, deliveries) ==
    /\ \A r \in DOMAIN RoutesOf(res) : InInputOrder(RoutesOf(res)[r].stops, deliveries)
    /\ InInputOrder(UnassignedOf(res), deliveries)
    /\ \A r, q \in DOMAIN RoutesOf(res) :
           r < q => VehiclePosition(RoutesOf(res)[r]) < VehiclePosition(RoutesOf(res)[q])

\* the deliveries of seq that are not stops of route, in seq's order
RejectedBy(route, seq) ==
    SelectSeq(seq, LAMBDA d : d \notin Range(route.stops))

C10_StateOrder ==
    /\ pc \in {"while", "for"} => InInputOrder(remaining_deliveries, deliveries_data)
    /\ pc = "return" => OrderPreserved(result, deliveries_data)

C10_ScanOrder ==
    pc = "for" /\ pc' = "while" =>
        remaining_deliveries' = RejectedBy(new_route, remaining_deliveries)

\* C10: in the result of route_optimization_tool the stops of every route
\* and unassignedDeliveries list input deliveries in their input order, and
\* the routes stand in the fleet order of their vehicles; each time a
\* vehicle's scan ends, the new remaining sequence is the old one without
\* the deliveries the vehicle accepted, in the same relative order.
C10_OrderPreservation ==
    []C10_StateOrder /\ [][C10_ScanOrder]_vars

\* two routes and a delivery left over, the first route holding a delivery
\* that comes after the second route's first stop in the input
C10_Witness ==
    /\ pc = "return"
    /\ Len(RoutesOf(result)) = 2
    /\ Len(UnassignedOf(result)) >= 1
    /\ Len(RoutesOf(result)[2].stops) >= 1
    /\ \E p \in DOMAIN RoutesOf(result)[1].stops :
           RoutesOf(result)[1].stops[p].id > RoutesOf(result)[2].stops[1].id

(***************************************************************************)
(* C3  The response is validated.                                          *)
(***************************************************************************)
\* C3: every response of the handler satisfies conservation and capacity
\* safety for the request's deliveries and fleet, whatever the language
\* model answered.
C3_ResponseValidated ==
    pc = "responded" =>
        /\ Conservation(result, deliveries_data)
        /\ CapacitySafety(result, fleet_data)

(***************************************************************************)
(* C4  Fallback correctness.                                               *)
(***************************************************************************)
\* the ways the call of the language model fails inside llm_optimize_routes
FailedKinds == {"raised", "no_json", "bad_json"}

ResponseKeys ==
    {"optimizedRoutes", "unassignedDeliveries",
     "optimization_method", "llm_used", "message"}

\* C4: when the language model is used and its call raises or its answer
\* holds no parseable JSON object, the response has the optimizedRoutes and
\* unassignedDeliveries that route_optimization_tool returns for the same
\* deliveries and fleet, and no key besides these two and the three
\* annotation keys.
C4_FallbackCorrectness ==
    pc = "responded" /\ llm_outcome.kind \in FailedKinds =>
        /\ DOMAIN result = ResponseKeys
        /\ result.optimizedRoutes =
               route_optimization_tool(deliveries_data, fleet_data).optimizedRoutes
        /\ result.unassignedDeliveries =
               route_optimization_tool(deliveries_data, fleet_data).unassignedDeliveries

\* an unparseable answer, and a fallback result with two routes and a
\* delivery left over
C4_Witness ==
    /\ pc = "responded"
    /\ llm_outcome.kind = "bad_json"
    /\ Len(RoutesOf(result)) = 2
    /\ UnassignedOf(result) # <<>>

(***************************************************************************)
(* C5  Fallback annotation.                                                *)
(***************************************************************************)
\* C5: once the call of the language model has failed (an exception, a
\* cancellation, an answer without parseable JSON) and the request has
\* ended, it has ended with a response that carries the one fallback
\* method, llm_used = False and a message; and a response carries
\* llm_used = True and the method of the language model only when its
\* routes are the ones the language model answered.
C5_FallbackAnnotation ==
    /\ llm_outcome.kind \in FailedKinds \cup {"cancelled"}
         /\ pc \in {"responded", "cancelled"} =>
           /\ pc = "responded"
           /\ result.optimization_method = <<"basic_algorithm_after_llm_error">>
           /\ result.llm_used = FALSE
           /\ result.message # <<>>
    /\ pc = "responded"
         /\ (result.llm_used \/ result.optimization_method = <<"llm_", provider>>) =>
           /\ llm_outcome.kind = "parsed"
           /\ result.llm_used
           /\ result.optimization_method = <<"llm_", provider>>
           /\ RoutesOf(result) = RoutesOf(llm_outcome.value)
           /\ UnassignedOf(result) = UnassignedOf(llm_outcome.value)

(***************************************************************************)
(* C6  The call of the language model is bounded.                          *)
(***************************************************************************)
\* C6: a request that awaits the language model does not await it for
\* ever: the await ends, by an answer, an exception or a timeout, and the
\* handler goes on.
C6_BoundedCall ==
    (pc = "awaiting") ~> (pc # "awaiting")

(***************************************************************************)
(* Specification of direct calls of route_optimization_tool.               *)
(***************************************************************************)
Init ==
    /\ request = NoRequest
    /\ deliveries_data \in DeliveryLists
    /\ fleet_data \in FleetLists
    /\ pc = "entry"
    /\ ret = "direct"
    /\ optimized_routes = <<>>
    /\ remaining_deliveries = <<>>
    /\ vehicle_index = 0
    /\ new_route = NoRoute
    /\ temp_remaining = <<>>
    /\ scan_pos = 1
    /\ result = NoResult
    /\ llm_ready = FALSE
    /\ provider = "openai"
    /\ llm_outcome = NoOutcome

Next ==
    \/ ToolEntry
    \/ ToolWhile
    \/ ToolFor
    \/ ToolEndVehicle
    \/ ToolReturnDirect

Spec == Init /\ [][Next]_vars

(***************************************************************************)
(* Specification of requests to optimize_routes_endpoint.  The outer       *)
(* except clauses of the handler are not actions: nothing between the try  *)
(* and them raises an Exception (llm_optimize_routes catches its own, the  *)
(* dicts it dumps hold strings and numbers, route_optimization_tool is     *)
(* total).                                                                 *)
(***************************************************************************)
InitEndpoint ==
    /\ request \in [deliveries : DeliveryLists, fleet : FleetLists]
    /\ deliveries_data = <<>>
    /\ fleet_data = <<>>
    /\ pc = "request"
    /\ ret = "none"
    /\ optimized_routes = <<>>
    /\ remaining_deliveries = <<>>
    /\ vehicle_index = 0
    /\ new_route = NoRoute
    /\ temp_remaining = <<>>
    /\ scan_pos = 1
    /\ result = NoResult
    /\ llm_ready \in BOOLEAN
    /\ provider = "openai"
    /\ llm_outcome = NoOutcome

NextEndpoint ==
    \/ Validate
    \/ Dispatch
    \/ LlmAnswers
    \/ LlmRaises
    \/ LlmCancelled
    \/ ToolEntry
    \/ ToolWhile
    \/ ToolFor
    \/ ToolEndVehicle
    \/ ToolReturnLlm
    \/ ToolReturnBasic
    \/ Annotate

EndpointSpec == InitEndpoint /\ [][NextEndpoint]_vars

\* The steps of the program itself are taken when they can be; whether and
\* when the language model answers is up to the language model.
ProgramStep ==
    \/ Validate
    \/ Dispatch
    \/ ToolEntry
    \/ ToolWhile
    \/ ToolFor
    \/ ToolEndVehicle
    \/ ToolReturnLlm
    \/ ToolReturnBasic
    \/ Annotate

EndpointLiveSpec == EndpointSpec /\ WF_vars(ProgramStep)

=============================================================================
